---- MODULE Spec2Model ----
(***************************************************************************)
(* Model of three parts of the repository:                                 *)
(*                                                                         *)
(*  - the stream normalizer of the chat-completion-streaming route         *)
(*    (app/api/chat-completion-streaming/route.ts, transformedStream.start)*)
(*    which turns the provider's byte stream into SSE events;              *)
(*  - the tool-execution loop of the LM Studio provider                    *)
(*    (providers/lmstudio/index.ts, executeRequest, batch path);           *)
(*  - the choice between the batch path and the streaming path of the same *)
(*    executeRequest, and the streaming path                               *)
(*    (providers/lmstudio/index.ts, providers/lmstudio/utils.ts).          *)
(*                                                                         *)
(* Text is modelled as a sequence of one-character strings, so that the    *)
(* string operations of the code (includes, split, trim, startsWith,       *)
(* slice, JSON.parse) are computed character by character and a chunk may  *)
(* end between any two characters. Time is the value of Date.now(); it     *)
(* advances by Tick while an awaited call completes.                       *)
(***************************************************************************)
EXTENDS Integers, Sequences, FiniteSets, TLC

VARIABLES
    \* ---- stream normalizer (route.ts) ----
    chatId,      \* body.chatId: [supplied, id]; id may be the empty text
    source,      \* the whole upstream text of this request (never changes)
    upstream,    \* the part of source the provider has not delivered yet
    chunks,      \* the chunks read so far, in order
    buffer,      \* let buffer (route.ts:113)
    lines,       \* const lines of the last SSE-mode pass (route.ts:137)
    emitted,     \* the events enqueued while handling the last chunk
    events,      \* everything enqueued on controller so far
    controller,  \* "open", "closed" (controller.close) or "errored" (controller.error)
    error,       \* the exception caught at route.ts:198: "none" or "upstream"
    npc,         \* position of start(): "start", "reading", "finished", "idle"
    \* ---- tool-execution loop (lmstudio/index.ts) ----
    lpc,             \* position of executeRequest: "idle", "initial", "inspect",
                     \* "tools", "next", "returned", "rejected"
    currentResponse, \* let currentResponse (index.ts:256)
    content,         \* let content (index.ts:259)
    iterationCount,  \* let iterationCount (index.ts:269)
    toolCalls,       \* const toolCalls (index.ts:266)
    toolResults,     \* const toolResults (index.ts:267)
    currentMessages, \* const currentMessages (index.ts:268), without allMessages
    timeSegments,    \* const timeSegments (index.ts:274)
    promises,        \* toolExecutionPromises (index.ts:300), each with its state
    settled,         \* the indices of promises in the order they settled
    requested,       \* number of tool calls the model has requested so far
    returned,        \* the value executeRequest returns (index.ts:443-459)
    now,             \* Date.now()
    providerStartTime, \* const providerStartTime (index.ts:167)
    tokens,          \* const tokens (index.ts:261)
    modelTime,       \* let modelTime (index.ts:271)
    toolsTime,       \* let toolsTime (index.ts:272)
    firstResponseTime, \* const firstResponseTime (index.ts:257)
    toolsStartTime,  \* const toolsStartTime (index.ts:298)
    inFlight,        \* number of model calls issued and not yet settled
    thrown,          \* the error executeRequest throws (index.ts:468-477)
    \* ---- path selection and streaming path (lmstudio/index.ts, utils.ts) ----
    apc,             \* position of executeRequest: "idle", "begin", "creating",
                     \* "streaming", "closed", "errored", "batch", "rejected"
    request,         \* request: [stream, tools]
    payloadTools,    \* payload.tools (index.ts:155); <<>> when it is not set
    accumulatedContent, \* let accumulatedContent (utils.ts:10)
    usage,           \* let usage (utils.ts:11)
    queue,           \* what controller.enqueue was given (utils.ts:24), in order
    output,          \* streamingResult.execution.output: content and tokens
    received,        \* the chunks the for await loop has taken (utils.ts:13)
    updates          \* how many times onUpdate was called (utils.ts:21)

nvars == <<chatId, source, upstream, chunks, buffer, lines, emitted, events,
           controller, error, npc>>

lvars == <<lpc, currentResponse, content, iterationCount, toolCalls, toolResults,
           currentMessages, timeSegments, promises, settled, requested, returned,
           now, providerStartTime, tokens, modelTime, toolsTime, firstResponseTime,
           toolsStartTime, inFlight, thrown>>

avars == <<apc, request, payloadTools, accumulatedContent, usage, queue, output,
           received, updates>>

vars == <<nvars, lvars, avars>>

----------------------------------------------------------------------------
(* Bounds of the model *)

\* number of lines the upstream text is made of
MaxLines == 2
\* number of chunks the provider delivers the text in (empty chunks included)
MaxChunks == 2
\* number of tool calls in one model response
MaxBatch == 2
\* number of tool calls the model requests in one request
MaxRequested == 4
\* number of tools of a request
MaxTools == 2
\* number of chunks of the upstream stream of the streaming path
MaxDeltas == 3
\* what Date.now() advances by while one awaited call (a model call, a tool)
\* is completing
Tick == 1

\* MAX_TOOL_ITERATIONS is imported from '@/providers' (index.ts:6), which is
\* not among the sources; the value is the one the specification names.
MAX_TOOL_ITERATIONS == 3

----------------------------------------------------------------------------
(* Text *)

NL == "\n"
SP == " "

\* 'data: ' (route.ts:135, 143)
DATA == <<"d", "a", "t", "a", ":", " ">>
\* '[DONE]' (route.ts:145)
DONE == <<"[", "D", "O", "N", "E", "]">>
\* {"content":"h"}: a JSON payload with a content delta
OBJ == <<"{", "\"", "c", "o", "n", "t", "e", "n", "t", "\"", ":", "\"", "h", "\"", "}">>
\* {}: a JSON payload without any content
EMPTYOBJ == <<"{", "}">>
\* the opening and the closing of a {"content":"..."} object
OBJ_OPEN == SubSeq(OBJ, 1, 12)
OBJ_CLOSE == SubSeq(OBJ, 14, 15)

IsWhite(c) == c \in {SP, NL}

\* String.prototype.includes
Includes(s, m) ==
    \E i \in 1..(Len(s) - Len(m) + 1) : SubSeq(s, i, i + Len(m) - 1) = m

\* String.prototype.startsWith
StartsWith(s, m) == Len(s) >= Len(m) /\ SubSeq(s, 1, Len(m)) = m

\* String.prototype.slice(n)
Slice(s, n) == SubSeq(s, n + 1, Len(s))

RECURSIVE TrimLeft(_)
TrimLeft(s) == IF s # <<>> /\ IsWhite(Head(s)) THEN TrimLeft(Tail(s)) ELSE s

RECURSIVE TrimRight(_)
TrimRight(s) ==
    IF s # <<>> /\ IsWhite(s[Len(s)]) THEN TrimRight(SubSeq(s, 1, Len(s) - 1)) ELSE s

\* String.prototype.trim
Trim(s) == TrimRight(TrimLeft(s))

\* String.prototype.split('\n'): the pieces between the newlines, so a text
\* that ends with a newline has an empty last piece, and '' splits to ['']
RECURSIVE SplitFrom(_, _)
SplitFrom(s, cur) ==
    IF s = <<>> THEN <<cur>>
    ELSE IF Head(s) = NL THEN <<cur>> \o SplitFrom(Tail(s), <<>>)
    ELSE SplitFrom(Tail(s), Append(cur, Head(s)))

Split(s) == SplitFrom(s, <<>>)

RECURSIVE Concat(_)
Concat(ss) == IF ss = <<>> THEN <<>> ELSE Head(ss) \o Concat(Tail(ss))

----------------------------------------------------------------------------
(* Events enqueued by the normalizer (route.ts:119-123, 154-158, 189-193) *)

ChatIdEvent(id) == [type |-> "chat_id", data |-> id]
ContentEvent(d) == [type |-> "content", data |-> d]
\* responseId is a fresh UUID; its value plays no part in the normalizer
DoneEvent == [type |-> "done", data |-> <<"r", "i", "d">>]

\* if (chatId): undefined and '' are both falsy
Truthy(c) == c.supplied /\ c.id # <<>>

\* as ChatIdEvents, without the test of chatId
ChatIdEvents_Unconditional(c) == <<ChatIdEvent(c.id)>>

\* route.ts:118-124
ChatIdEvents(c) == IF Truthy(c) THEN <<ChatIdEvent(c.id)>> ELSE <<>>

----------------------------------------------------------------------------
(* One chunk of the read loop (route.ts:131-184) *)

\* JSON.parse(data) followed by
\*   json.choices?.[0]?.delta?.content || json.content || ''
\* on the JSON texts {} and {"content":"<text>"}. Every other payload of the
\* model (x, [DONE], the empty text) is not JSON and throws.
ParseJSON(data) ==
    IF data = EMPTYOBJ THEN [ok |-> TRUE, content |-> <<>>]
    ELSE IF /\ Len(data) >= Len(OBJ_OPEN) + Len(OBJ_CLOSE)
            /\ StartsWith(data, OBJ_OPEN)
            /\ SubSeq(data, Len(data) - 1, Len(data)) = OBJ_CLOSE
            /\ \A i \in (Len(OBJ_OPEN) + 1)..(Len(data) - 2) : data[i] \notin {"\"", "\\", NL}
         THEN [ok |-> TRUE,
               content |-> SubSeq(data, Len(OBJ_OPEN) + 1, Len(data) - 2)]
    ELSE [ok |-> FALSE, content |-> <<>>]

\* line.slice(6).trim() (route.ts:144)
Payload(line) == Trim(Slice(line, Len(DATA)))

\* as HandleLine, with an empty catch block: an unparsable payload is dropped
HandleLine_DropsUnparsed(line) ==
    IF Trim(line) = <<>> THEN [out |-> <<>>, brk |-> FALSE]
    ELSE IF ~StartsWith(line, DATA) THEN [out |-> <<>>, brk |-> FALSE]
    ELSE LET data == Payload(line)
             json == ParseJSON(data)
         IN  IF data = DONE THEN [out |-> <<>>, brk |-> TRUE]
             ELSE [out |-> IF json.ok /\ json.content # <<>>
                           THEN <<ContentEvent(json.content)>> ELSE <<>>,
                   brk |-> FALSE]

\* The body of the for loop for one line (route.ts:141-169): the events it
\* enqueues and whether it breaks out of the loop.
HandleLine(line) ==
    IF Trim(line) = <<>> THEN [out |-> <<>>, brk |-> FALSE]
    ELSE IF ~StartsWith(line, DATA) THEN [out |-> <<>>, brk |-> FALSE]
    ELSE LET data == Payload(line)
             json == ParseJSON(data)
         IN  IF data = DONE THEN [out |-> <<>>, brk |-> TRUE]
             ELSE IF json.ok
                  THEN [out |-> IF json.content # <<>>
                                THEN <<ContentEvent(json.content)>> ELSE <<>>,
                        brk |-> FALSE]
             ELSE [out |-> IF data # <<>> THEN <<ContentEvent(data)>> ELSE <<>>,
                   brk |-> FALSE]

\* as HandleLines, with a done event enqueued at the [DONE] line
RECURSIVE HandleLines_DoneEmits(_)
HandleLines_DoneEmits(ls) ==
    IF ls = <<>> THEN <<>>
    ELSE LET r == HandleLine(Head(ls))
         IN  IF r.brk THEN <<DoneEvent>> ELSE r.out \o HandleLines_DoneEmits(Tail(ls))

\* for (const line of lines) (route.ts:140-170)
RECURSIVE HandleLines(_)
HandleLines(ls) ==
    IF ls = <<>> THEN <<>>
    ELSE LET r == HandleLine(Head(ls))
         IN  IF r.brk THEN <<>> ELSE r.out \o HandleLines(Tail(ls))

\* as HandleSSE, without buffer = lines.pop(): the handled lines stay buffered
HandleSSE_KeepsBuffer(buf) ==
    LET all == Split(buf)
        ls  == SubSeq(all, 1, Len(all) - 1)
    IN  [buffer |-> buf, lines |-> ls, out |-> HandleLines(ls)]

\* The SSE branch (route.ts:135-170): split, keep the last piece, handle the rest
HandleSSE(buf) ==
    LET all == Split(buf)
        ls  == SubSeq(all, 1, Len(all) - 1)
    IN  [buffer |-> all[Len(all)], lines |-> ls, out |-> HandleLines(ls)]

\* as HandleRaw, without if (content)
HandleRaw_Unguarded(buf) ==
    [buffer |-> <<>>, lines |-> <<>>, out |-> <<ContentEvent(buf)>>]

\* as HandleRaw, without buffer = ''
HandleRaw_KeepsBuffer(buf) ==
    [buffer |-> buf, lines |-> <<>>,
     out |-> IF buf # <<>> THEN <<ContentEvent(buf)>> ELSE <<>>]

\* The raw-text branch (route.ts:171-184)
HandleRaw(buf) ==
    [buffer |-> <<>>, lines |-> <<>>,
     out |-> IF buf # <<>> THEN <<ContentEvent(buf)>> ELSE <<>>]

\* buffer += chunk, then one of the two branches (route.ts:131-184)
HandleChunk(buf, chunk) ==
    LET b == buf \o chunk
    IN  IF Includes(b, DATA) THEN HandleSSE(b) ELSE HandleRaw(b)

----------------------------------------------------------------------------
(* The upstream texts of the model: up to MaxLines lines, each a raw text, *)
(* a blank or an SSE frame; only the last line may lack its newline.        *)

Payloads == {<<"x">>, <<SP>>, DONE, OBJ}

LineKinds == {<<>>, <<"x">>} \cup {DATA \o p : p \in Payloads}

WholeLines == {k \o <<NL>> : k \in LineKinds}

Sources ==
    {Concat(ps) \o last :
        ps \in UNION {[1..n -> WholeLines] : n \in 0..(MaxLines - 1)},
        last \in LineKinds \cup WholeLines}

ChatIds == {[supplied |-> FALSE, id |-> <<>>],
            [supplied |-> TRUE, id |-> <<>>],
            [supplied |-> TRUE, id |-> <<"c">>]}

----------------------------------------------------------------------------
(* The normalizer: transformedStream.start (route.ts:109-204) *)

NInit ==
    /\ chatId \in ChatIds
    /\ source \in Sources
    /\ upstream = source
    /\ chunks = <<>>
    /\ buffer = <<>>
    /\ lines = <<>>
    /\ emitted = <<>>
    /\ events = <<>>
    /\ controller = "open"
    /\ error = "none"
    /\ npc = "start"

\* route.ts:110-124: up to the first await
Start ==
    /\ npc = "start"
    /\ events' = events \o ChatIdEvents(chatId)
    /\ npc' = "reading"
    /\ UNCHANGED <<chatId, source, upstream, chunks, buffer, lines, emitted,
                   controller, error>>
    /\ UNCHANGED <<lvars, avars>>

\* route.ts:128-185: reader.read() yields a chunk of k characters
Read(k) ==
    /\ npc = "reading"
    /\ Len(chunks) < MaxChunks
    /\ Len(chunks) = MaxChunks - 1 => k = Len(upstream)
    /\ \E r \in {HandleChunk(buffer, SubSeq(upstream, 1, k))} :
          /\ buffer' = r.buffer
          /\ lines' = r.lines
          /\ emitted' = r.out
          /\ events' = events \o r.out
    /\ upstream' = Slice(upstream, k)
    /\ chunks' = Append(chunks, SubSeq(upstream, 1, k))
    /\ UNCHANGED <<chatId, source, controller, error, npc>>
    /\ UNCHANGED <<lvars, avars>>

\* route.ts:129, 187-197: reader.read() yields done
Close ==
    /\ npc = "reading"
    /\ upstream = <<>>
    /\ events' = Append(events, DoneEvent)
    /\ emitted' = <<DoneEvent>>
    /\ lines' = <<>>
    /\ controller' = "closed"
    /\ npc' = "finished"
    /\ UNCHANGED <<chatId, source, upstream, chunks, buffer, error>>
    /\ UNCHANGED <<lvars, avars>>

\* route.ts:128, 198-203: reader.read() rejects (the provider stream was
\* errored, utils.ts:27-29)
Fail ==
    /\ npc = "reading"
    /\ error' = "upstream"
    /\ emitted' = <<>>
    /\ lines' = <<>>
    /\ controller' = "errored"
    /\ npc' = "finished"
    /\ UNCHANGED <<chatId, source, upstream, chunks, buffer, events>>
    /\ UNCHANGED <<lvars, avars>>

\* the normalizer is not running
NIdle ==
    /\ chatId = [supplied |-> FALSE, id |-> <<>>]
    /\ source = <<>>
    /\ upstream = <<>>
    /\ chunks = <<>>
    /\ buffer = <<>>
    /\ lines = <<>>
    /\ emitted = <<>>
    /\ events = <<>>
    /\ controller = "open"
    /\ error = "none"
    /\ npc = "idle"

----------------------------------------------------------------------------
(* The tool-execution loop: executeRequest, batch path (index.ts:254-479)  *)

\* request.tools: the ids of the tools of the request
RequestTools == {"t"}

\* the names a model may put in a tool call: a tool of the request or not
ToolNames == {"t", "u"}

\* toolCall.function.arguments: a JSON text ("ok") or not ("bad")
ToolArgs == {"ok", "bad"}

\* a response without a usage field
NoUsage == [present |-> FALSE, prompt_tokens |-> 0, completion_tokens |-> 0,
            total_tokens |-> 0]

\* the usage field of a response that has one
SomeUsage == [present |-> TRUE, prompt_tokens |-> 2, completion_tokens |-> 1,
              total_tokens |-> 3]

NoResponse == [content |-> <<>>, usage |-> NoUsage, tool_calls |-> <<>>]

NoTokens == [input |-> 0, output |-> 0, total |-> 0]

NoTiming == [startTime |-> 0, endTime |-> 0, duration |-> 0]

NoReturn == [content |-> <<>>, iterations |-> 0, toolCalls |-> <<>>,
             toolResults |-> <<>>, timeSegments |-> <<>>, tokens |-> NoTokens,
             modelTime |-> 0, toolsTime |-> 0, firstResponseTime |-> 0,
             timing |-> NoTiming]

\* nothing was thrown
NoError == [thrown |-> FALSE, timing |-> NoTiming]

\* what executeTool does, for the caller: it resolves with success, resolves
\* with a failure, or throws
Outcomes == {"ok", "fail", "throw"}

\* The responses the model may give to its n-th call, having requested
\* `req` tool calls so far: its content is empty or the text <<n>>, and its
\* tool calls have fresh ids. The usage field plays no part in what the loop
\* does next; the model gives one to the responses that ask for tools and none
\* to the others, so that the first response and the later ones come both
\* with and without usage.
Responses(n, req) ==
    UNION {{[content |-> c,
             usage |-> IF k > 0 THEN SomeUsage ELSE NoUsage,
             tool_calls |-> [i \in 1..k |->
                               [id |-> req + i, name |-> ns[i], args |-> as[i]]]] :
               c \in {<<>>, <<n>>},
               ns \in [1..k -> ToolNames],
               as \in [1..k -> ToolArgs]} :
           k \in {j \in 0..MaxBatch : req + j <= MaxRequested}}

Map(f(_), seq) == [i \in 1..Len(seq) |-> f(seq[i])]

\* the value of a promise whose tool is not in request.tools (index.ts:308)
NullValue(tc) ==
    [isNull |-> TRUE, toolCall |-> tc, toolName |-> tc.name, toolParams |-> "none",
     result |-> [success |-> FALSE, output |-> "undefined", error |-> "none"],
     startTime |-> 0, endTime |-> 0, duration |-> 0]

\* the value returned after executeTool resolved (index.ts:310-322)
Completed(tc, result, start, end) ==
    [isNull |-> FALSE, toolCall |-> tc, toolName |-> tc.name, toolParams |-> "params",
     result |-> result,
     startTime |-> start, endTime |-> end, duration |-> end - start]

\* the value returned by the catch block (index.ts:323-340)
Caught(tc, message, start, end) ==
    [isNull |-> FALSE, toolCall |-> tc, toolName |-> tc.name, toolParams |-> "{}",
     result |-> [success |-> FALSE, output |-> "undefined", error |-> message],
     startTime |-> start, endTime |-> end, duration |-> end - start]

\* One async callback of toolCallsInResponse.map, started at time t, up to its
\* first await (index.ts:300-311): JSON.parse throws, the tool is missing, or
\* executeTool is called and the callback waits for it.
Dispatched(tc, t) ==
    IF tc.args = "bad"
    THEN [call |-> tc, state |-> "fulfilled", startTime |-> t,
          value |-> Caught(tc, "parse", t, t)]
    ELSE IF tc.name \notin RequestTools
    THEN [call |-> tc, state |-> "fulfilled", startTime |-> t, value |-> NullValue(tc)]
    ELSE [call |-> tc, state |-> "pending", startTime |-> t, value |-> NullValue(tc)]

\* The callback after executeTool settled at time end (index.ts:311-340)
Resumed(tc, outcome, start, end) ==
    IF outcome = "ok"
    THEN Completed(tc, [success |-> TRUE, output |-> "out", error |-> "none"],
                   start, end)
    ELSE IF outcome = "fail"
    THEN Completed(tc, [success |-> FALSE, output |-> "undefined", error |-> "failed"],
                   start, end)
    ELSE Caught(tc, "thrown", start, end)

\* as ResultContent, with the bare error text for a failure
ResultContent_BareError(v) ==
    IF v.result.success
    THEN [error |-> FALSE, message |-> "none", tool |-> "none", output |-> v.result.output]
    ELSE [error |-> FALSE, message |-> v.result.error, tool |-> "none",
          output |-> "undefined"]

\* resultContent (index.ts:372-382)
ResultContent(v) ==
    IF v.result.success
    THEN [error |-> FALSE, message |-> "none", tool |-> "none", output |-> v.result.output]
    ELSE [error |-> TRUE, message |-> v.result.error, tool |-> v.toolName,
          output |-> "undefined"]

\* as AllSettled, with a join that resolves with the first promise settled
AllSettled_Any(ps) == \E i \in DOMAIN ps : ps[i].state = "fulfilled"

\* await Promise.allSettled resolves (index.ts:343)
AllSettled(ps) == \A i \in DOMAIN ps : ps[i].state = "fulfilled"

\* as ExecutionResults, in the order the promises settled
ExecutionResults_AsSettled(ps) == [i \in 1..Len(settled) |-> ps[settled[i]]]

\* executionResults (index.ts:343): Promise.allSettled gives the results in
\* the order of the promises it was given
ExecutionResults(ps) == ps

\* as Kept, with a join that stops at the first failure (Promise.all)
RECURSIVE Kept_UntilFailure(_)
Kept_UntilFailure(ps) ==
    IF ps = <<>> THEN <<>>
    ELSE IF Head(ps).value.isNull THEN Kept_UntilFailure(Tail(ps))
    ELSE IF ~Head(ps).value.result.success THEN <<>>
    ELSE <<Head(ps)>> \o Kept_UntilFailure(Tail(ps))

\* the settled results the for loop does not skip (index.ts:358-359); no
\* promise is ever rejected, the callback catches everything
Kept(ps) == SelectSeq(ps, LAMBDA p : ~p.value.isNull)

Value(p) == p.value

\* index.ts:364-370
ToolSegment(v) ==
    [type |-> "tool", name |-> v.toolName, startTime |-> v.startTime,
     endTime |-> v.endTime, duration |-> v.duration]

\* index.ts:384-392
ToolCallRecord(v) ==
    [name |-> v.toolName, arguments |-> v.toolParams, result |-> ResultContent(v),
     success |-> v.result.success, startTime |-> v.startTime, endTime |-> v.endTime,
     duration |-> v.duration]

\* index.ts:394-398
ToolMessage(v) ==
    [role |-> "tool", tool_call_id |-> v.toolCall.id, tool_calls |-> <<>>,
     content |-> ResultContent(v)]

\* index.ts:345-356
AssistantMessage(tcs) ==
    [role |-> "assistant", tool_call_id |-> 0,
     tool_calls |-> [i \in 1..Len(tcs) |-> tcs[i].id],
     content |-> [error |-> FALSE, message |-> "none", tool |-> "none", output |-> "null"]]

\* index.ts:373-375
Output(v) == v.result.output

Succeeded(vs) == SelectSeq(vs, LAMBDA v : v.result.success)

\* as ModelSegment, with the type of a tool segment
ModelSegment_AsTool(name, start, end) ==
    [type |-> "tool", name |-> name, startTime |-> start, endTime |-> end,
     duration |-> end - start]

\* index.ts:274-282, 416-422
ModelSegment(name, start, end) ==
    [type |-> "model", name |-> name, startTime |-> start, endTime |-> end,
     duration |-> end - start]

\* the sum of the durations of the segments gs
RECURSIVE SumOfDurations(_)
SumOfDurations(gs) ==
    IF gs = <<>> THEN 0 ELSE Head(gs).duration + SumOfDurations(Tail(gs))

\* as ThisToolsTime, with the durations of the tool calls of the batch added up
ThisToolsTime_Summed(start, end) ==
    SumOfDurations(Map(Value, Kept(promises)))

\* thisToolsTime (index.ts:298, 401): the time from the start of the batch to
\* the end of the recording of its results
ThisToolsTime(start, end) == end - start

\* const tokens (index.ts:261-265): usage?.x || 0
InitialTokens(u) ==
    IF u.present
    THEN [input |-> u.prompt_tokens, output |-> u.completion_tokens,
          total |-> u.total_tokens]
    ELSE NoTokens

\* as AddUsage, with the figures of the last response in place of the sum
AddUsage_Replace(tk, u) ==
    IF u.present
    THEN [input |-> u.prompt_tokens, output |-> u.completion_tokens,
          total |-> u.total_tokens]
    ELSE tk

\* index.ts:430-434: if (currentResponse.usage) tokens.x += usage.x || 0
AddUsage(tk, u) ==
    IF u.present
    THEN [input |-> tk.input + u.prompt_tokens,
          output |-> tk.output + u.completion_tokens,
          total |-> tk.total + u.total_tokens]
    ELSE tk

\* as EnhancedError, the error of the model call thrown again as it came
EnhancedError_Bare(start, end) == [thrown |-> TRUE, timing |-> NoTiming]

\* enhancedError (index.ts:460-478)
EnhancedError(start, end) ==
    [thrown |-> TRUE,
     timing |-> [startTime |-> start, endTime |-> end, duration |-> end - start]]

\* as LatestContent, with the content of the response whatever it is
LatestContent_Overwrite(c, r) == r.content

\* if (currentResponse.choices[0]?.message?.content) content = ...
\* (index.ts:285-287, 426-428)
LatestContent(c, r) == IF r.content # <<>> THEN r.content ELSE c

\* as Guard, with <= for <
Guard_Inclusive(n) == n <= MAX_TOOL_ITERATIONS

\* as Guard, one pass short
Guard_Short(n) == n < MAX_TOOL_ITERATIONS - 1

\* the loop guard (index.ts:284)
Guard(n) == n < MAX_TOOL_ITERATIONS

\* the iterations field of the returned timing (index.ts:456)
Iterations(n) == n + 1

\* executeRequest has been called and awaits the first model call (index.ts:256)
LInit ==
    /\ lpc = "initial"
    /\ currentResponse = NoResponse
    /\ content = <<>>
    /\ iterationCount = 0
    /\ toolCalls = <<>>
    /\ toolResults = <<>>
    /\ currentMessages = <<>>
    /\ timeSegments = <<>>
    /\ promises = <<>>
    /\ settled = <<>>
    /\ requested = 0
    /\ returned = NoReturn
    /\ now = 0
    /\ providerStartTime = 0
    /\ tokens = NoTokens
    /\ modelTime = 0
    /\ toolsTime = 0
    /\ firstResponseTime = 0
    /\ toolsStartTime = 0
    /\ inFlight = 1
    /\ thrown = NoError

\* the loop is not running
LIdle ==
    /\ lpc = "idle"
    /\ currentResponse = NoResponse
    /\ content = <<>>
    /\ iterationCount = 0
    /\ toolCalls = <<>>
    /\ toolResults = <<>>
    /\ currentMessages = <<>>
    /\ timeSegments = <<>>
    /\ promises = <<>>
    /\ settled = <<>>
    /\ requested = 0
    /\ returned = NoReturn
    /\ now = 0
    /\ providerStartTime = 0
    /\ tokens = NoTokens
    /\ modelTime = 0
    /\ toolsTime = 0
    /\ firstResponseTime = 0
    /\ toolsStartTime = 0
    /\ inFlight = 0
    /\ thrown = NoError

\* index.ts:254-282: the first model call resolves
InitialResponse ==
    /\ lpc = "initial"
    /\ \E r \in Responses(1, requested) :
          /\ currentResponse' = r
          /\ content' = r.content
          /\ tokens' = InitialTokens(r.usage)
          /\ requested' = requested + Len(r.tool_calls)
    /\ now' = now + Tick
    /\ inFlight' = inFlight - 1
    /\ firstResponseTime' = now' - now
    /\ modelTime' = firstResponseTime'
    /\ timeSegments' = <<ModelSegment("Initial response", now, now + firstResponseTime')>>
    /\ lpc' = "inspect"
    /\ UNCHANGED <<iterationCount, toolCalls, toolResults, currentMessages, promises,
                   settled, returned, providerStartTime, toolsTime, toolsStartTime,
                   thrown>>
    /\ UNCHANGED <<nvars, avars>>

\* index.ts:439-459
ReturnValue(c) ==
    [content |-> c, iterations |-> Iterations(iterationCount),
     toolCalls |-> toolCalls, toolResults |-> toolResults,
     timeSegments |-> timeSegments, tokens |-> tokens,
     modelTime |-> modelTime, toolsTime |-> toolsTime,
     firstResponseTime |-> firstResponseTime,
     timing |-> [startTime |-> providerStartTime, endTime |-> now,
                 duration |-> now - providerStartTime]]

\* index.ts:284: the guard fails, the loop ends at the cap
ExitAtCap ==
    /\ lpc = "inspect"
    /\ ~Guard(iterationCount)
    /\ returned' = ReturnValue(content)
    /\ lpc' = "returned"
    /\ UNCHANGED <<currentResponse, content, iterationCount, toolCalls, toolResults,
                   currentMessages, timeSegments, promises, settled, requested>>
    /\ UNCHANGED <<now, providerStartTime, tokens, modelTime, toolsTime,
                   firstResponseTime, toolsStartTime, inFlight, thrown>>
    /\ UNCHANGED <<nvars, avars>>

\* index.ts:285-292: the response has no tool calls, break
ExitNoToolCalls ==
    /\ lpc = "inspect"
    /\ Guard(iterationCount)
    /\ currentResponse.tool_calls = <<>>
    /\ content' = LatestContent(content, currentResponse)
    /\ returned' = ReturnValue(content')
    /\ lpc' = "returned"
    /\ UNCHANGED <<currentResponse, iterationCount, toolCalls, toolResults,
                   currentMessages, timeSegments, promises, settled, requested>>
    /\ UNCHANGED <<now, providerStartTime, tokens, modelTime, toolsTime,
                   firstResponseTime, toolsStartTime, inFlight, thrown>>
    /\ UNCHANGED <<nvars, avars>>

\* index.ts:285-343: the tool calls are started, up to await Promise.allSettled
Dispatch ==
    /\ lpc = "inspect"
    /\ Guard(iterationCount)
    /\ currentResponse.tool_calls # <<>>
    /\ content' = LatestContent(content, currentResponse)
    /\ toolsStartTime' = now
    /\ promises' = Map(LAMBDA tc : Dispatched(tc, now), currentResponse.tool_calls)
    /\ settled' = SelectSeq([i \in 1..Len(promises') |-> i],
                            LAMBDA i : promises'[i].state = "fulfilled")
    /\ lpc' = "tools"
    /\ UNCHANGED <<currentResponse, iterationCount, toolCalls, toolResults,
                   currentMessages, timeSegments, requested, returned>>
    /\ UNCHANGED <<now, providerStartTime, tokens, modelTime, toolsTime,
                   firstResponseTime, inFlight, thrown>>
    /\ UNCHANGED <<nvars, avars>>

\* index.ts:311-340: executeTool of the i-th callback settles
ToolSettles(i, outcome) ==
    /\ lpc = "tools"
    /\ i \in 1..Len(promises)
    /\ promises[i].state = "pending"
    /\ now' = now + Tick
    /\ promises' = [promises EXCEPT ![i] =
                      [call |-> @.call, state |-> "fulfilled", startTime |-> @.startTime,
                       value |-> Resumed(@.call, outcome, @.startTime, now')]]
    /\ settled' = Append(settled, i)
    /\ UNCHANGED <<lpc, currentResponse, content, iterationCount, toolCalls,
                   toolResults, currentMessages, timeSegments, requested, returned>>
    /\ UNCHANGED <<providerStartTime, tokens, modelTime, toolsTime,
                   firstResponseTime, toolsStartTime, inFlight, thrown>>
    /\ UNCHANGED <<nvars, avars>>

\* index.ts:343-409: Promise.allSettled resolves, the results are recorded in
\* the order of the promises, the time of the batch is added to toolsTime and
\* the next model call is issued with currentMessages
Join ==
    /\ lpc = "tools"
    /\ AllSettled(promises)
    /\ LET vs == Map(Value, Kept(ExecutionResults(promises)))
       IN  /\ currentMessages' = Append(currentMessages,
                                        AssistantMessage(currentResponse.tool_calls))
                                 \o Map(ToolMessage, vs)
           /\ timeSegments' = timeSegments \o Map(ToolSegment, vs)
           /\ toolResults' = toolResults \o Map(Output, Succeeded(vs))
           /\ toolCalls' = toolCalls \o Map(ToolCallRecord, vs)
    /\ toolsTime' = toolsTime + ThisToolsTime(toolsStartTime, now)
    /\ inFlight' = inFlight + 1
    /\ lpc' = "next"
    /\ UNCHANGED <<currentResponse, content, iterationCount, promises, settled,
                   requested, returned>>
    /\ UNCHANGED <<now, providerStartTime, tokens, modelTime, firstResponseTime,
                   toolsStartTime, thrown>>
    /\ UNCHANGED <<nvars, avars>>

\* index.ts:411-436: the next model call resolves
NextResponse ==
    /\ lpc = "next"
    /\ \E r \in Responses(iterationCount + 2, requested) :
          /\ currentResponse' = r
          /\ content' = LatestContent(content, r)
          /\ tokens' = AddUsage(tokens, r.usage)
          /\ requested' = requested + Len(r.tool_calls)
    /\ now' = now + Tick
    /\ inFlight' = inFlight - 1
    /\ timeSegments' = Append(timeSegments, ModelSegment("Model response", now, now'))
    /\ modelTime' = modelTime + (now' - now)
    /\ iterationCount' = iterationCount + 1
    /\ lpc' = "inspect"
    /\ UNCHANGED <<toolCalls, toolResults, currentMessages, promises, settled,
                   returned>>
    /\ UNCHANGED <<providerStartTime, toolsTime, firstResponseTime, toolsStartTime,
                   thrown>>
    /\ UNCHANGED <<nvars, avars>>

\* index.ts:256, 411, 460-478: a model call rejects, the catch block throws
\* the error with its timing
ModelFails ==
    /\ lpc \in {"initial", "next"}
    /\ now' = now + Tick
    /\ inFlight' = inFlight - 1
    /\ thrown' = EnhancedError(providerStartTime, now')
    /\ lpc' = "rejected"
    /\ UNCHANGED <<currentResponse, content, iterationCount, toolCalls, toolResults,
                   currentMessages, timeSegments, promises, settled, requested,
                   returned>>
    /\ UNCHANGED <<providerStartTime, tokens, modelTime, toolsTime,
                   firstResponseTime, toolsStartTime>>
    /\ UNCHANGED <<nvars, avars>>

----------------------------------------------------------------------------
(* Path selection and the streaming path of executeRequest                  *)
(* (index.ts:115-252, utils.ts:3-33)                                        *)

\* tool.usageControl of a tool of the request
UsageControls == {"auto", "force", "none"}

\* request.tools: undefined, or a list of tools, each given by its usageControl
ToolLists ==
    {[defined |-> FALSE, list |-> <<>>]}
    \cup {[defined |-> TRUE, list |-> l] :
             l \in UNION {[1..n -> UsageControls] : n \in 0..MaxTools}}

\* the requests of the model
Requests == [stream : BOOLEAN, tools : ToolLists]

\* const tools (index.ts:115-124): undefined unless request.tools has elements
Tools(req) ==
    IF req.tools.defined /\ Len(req.tools.list) > 0
    THEN [defined |-> TRUE, list |-> req.tools.list]
    ELSE [defined |-> FALSE, list |-> <<>>]

\* filteredTools (index.ts:135-139)
FilteredTools(ts) == SelectSeq(ts.list, LAMBDA c : c # "none")

\* payload.tools (index.ts:134, 154-155): set only from a non-empty filteredTools
PayloadTools(req) ==
    IF Len(Tools(req).list) > 0 THEN FilteredTools(Tools(req)) ELSE <<>>

\* as UsesStreaming, with the tools that are sent in place of the tools of
\* the request
UsesStreaming_Filtered(req) == req.stream /\ Len(PayloadTools(req)) = 0

\* request.stream && (!tools || tools.length === 0) (index.ts:171)
UsesStreaming(req) ==
    req.stream /\ (~Tools(req).defined \/ Len(Tools(req).list) = 0)

\* the delta of a chunk: chunk.choices[0]?.delta?.content || '' (utils.ts:14)
Deltas == {<<>>, <<"a">>}

\* chunk.usage: absent, or one of two reports
MoreUsage == [present |-> TRUE, prompt_tokens |-> 2, completion_tokens |-> 2,
              total_tokens |-> 4]

ChunkUsages == {NoUsage, SomeUsage, MoreUsage}

\* let usage: any = {} (utils.ts:11)
EmptyUsage == NoUsage

\* new TextEncoder().encode(delta) (utils.ts:24): the UTF-8 bytes of the text
Encode(text) == [i \in DOMAIN text |-> IF text[i] = "a" THEN 97 ELSE 63]

\* as Accumulate, keeping only the delta of the chunk
Accumulate_Replace(acc, delta) == delta

\* accumulatedContent += delta (utils.ts:15)
Accumulate(acc, delta) == acc \o delta

\* as NextUsage, adding the figures of the chunk to those held
NextUsage_Summed(held, u) ==
    IF u.present
    THEN [present |-> TRUE,
          prompt_tokens |-> held.prompt_tokens + u.prompt_tokens,
          completion_tokens |-> held.completion_tokens + u.completion_tokens,
          total_tokens |-> held.total_tokens + u.total_tokens]
    ELSE held

\* if (chunk.usage) usage = chunk.usage (utils.ts:17-19)
NextUsage(held, u) == IF u.present THEN u ELSE held

\* tokens as onUpdate sets them (index.ts:184-188): the three figures of
\* usage, which are undefined when usage is still {}
StreamTokens(u) ==
    [defined |-> u.present, input |-> u.prompt_tokens,
     output |-> u.completion_tokens, total |-> u.total_tokens]

\* execution.output of the streaming result as it is returned (index.ts:220-224)
InitialOutput ==
    [content |-> <<>>, tokens |-> [defined |-> TRUE, input |-> 0, output |-> 0,
                                   total |-> 0]]

\* executeRequest is not running
AIdle ==
    /\ apc = "idle"
    /\ request = [stream |-> FALSE, tools |-> [defined |-> FALSE, list |-> <<>>]]
    /\ payloadTools = <<>>
    /\ accumulatedContent = <<>>
    /\ usage = EmptyUsage
    /\ queue = <<>>
    /\ output = InitialOutput
    /\ received = <<>>
    /\ updates = 0

\* executeRequest is called with a request (index.ts:68)
AInit ==
    /\ apc = "begin"
    /\ request \in Requests
    /\ payloadTools = <<>>
    /\ accumulatedContent = <<>>
    /\ usage = EmptyUsage
    /\ queue = <<>>
    /\ output = InitialOutput
    /\ received = <<>>
    /\ updates = 0

\* index.ts:115-172, 254-256: the payload is built and the path is chosen
SelectPath ==
    /\ apc = "begin"
    /\ payloadTools' = PayloadTools(request)
    /\ apc' = IF UsesStreaming(request) THEN "creating" ELSE "batch"
    /\ UNCHANGED <<request, accumulatedContent, usage, queue, output, received, updates>>
    /\ UNCHANGED <<nvars, lvars>>

\* index.ts:179-250, utils.ts:7-11: the streaming call resolves, the stream
\* is constructed and the streaming result is returned
StreamCreated ==
    /\ apc = "creating"
    /\ accumulatedContent' = <<>>
    /\ usage' = EmptyUsage
    /\ output' = InitialOutput
    /\ apc' = "streaming"
    /\ UNCHANGED <<request, payloadTools, queue, received, updates>>
    /\ UNCHANGED <<nvars, lvars>>

\* index.ts:179, 460-478: the streaming call rejects
CreateFails ==
    /\ apc = "creating"
    /\ apc' = "rejected"
    /\ UNCHANGED <<request, payloadTools, accumulatedContent, usage, queue, output,
                   received, updates>>
    /\ UNCHANGED <<nvars, lvars>>

\* utils.ts:13-25, index.ts:181-216: one chunk of the upstream stream
Chunk(delta, u) ==
    /\ apc = "streaming"
    /\ Len(queue) < MaxDeltas
    /\ received' = Append(received, [delta |-> delta, usage |-> u])
    /\ accumulatedContent' = Accumulate(accumulatedContent, delta)
    /\ usage' = NextUsage(usage, u)
    /\ updates' = updates + 1
    /\ output' = [content |-> accumulatedContent', tokens |-> StreamTokens(usage')]
    /\ queue' = Append(queue, Encode(delta))
    /\ UNCHANGED <<apc, request, payloadTools>>
    /\ UNCHANGED <<nvars, lvars>>

\* utils.ts:27: the upstream stream ends
StreamEnds ==
    /\ apc = "streaming"
    /\ apc' = "closed"
    /\ UNCHANGED <<request, payloadTools, accumulatedContent, usage, queue, output,
                   received, updates>>
    /\ UNCHANGED <<nvars, lvars>>

\* utils.ts:28-30: the upstream stream throws
StreamFails ==
    /\ apc = "streaming"
    /\ apc' = "errored"
    /\ UNCHANGED <<request, payloadTools, accumulatedContent, usage, queue, output,
                   received, updates>>
    /\ UNCHANGED <<nvars, lvars>>

----------------------------------------------------------------------------
(* Specifications *)

Init == NInit /\ LIdle /\ AIdle

Next ==
    \/ Start
    \/ \E k \in 0..Len(upstream) : Read(k)
    \/ Close
    \/ Fail

\* the stream normalizer of one request
Spec == Init /\ [][Next]_vars

LoopInit == NIdle /\ LInit /\ AIdle

LoopNext ==
    \/ InitialResponse
    \/ ExitAtCap
    \/ ExitNoToolCalls
    \/ Dispatch
    \/ \E i \in 1..MaxBatch, o \in Outcomes : ToolSettles(i, o)
    \/ Join
    \/ NextResponse
    \/ ModelFails

\* the tool-execution loop of one request
LoopSpec == LoopInit /\ [][LoopNext]_vars

AdapterInit == NIdle /\ LIdle /\ AInit

AdapterNext ==
    \/ SelectPath
    \/ StreamCreated
    \/ CreateFails
    \/ \E d \in Deltas, u \in ChunkUsages : Chunk(d, u)
    \/ StreamEnds
    \/ StreamFails

\* the choice of the path of one request, and its streaming path
AdapterSpec == AdapterInit /\ [][AdapterNext]_vars

----------------------------------------------------------------------------
(* Properties of the stream normalizer *)

Count(seq, P(_)) == Cardinality({i \in DOMAIN seq : P(seq[i])})

IsContent(e) == e.type = "content"
IsChatId(e) == e.type = "chat_id"
IsTerminal(e) == e.type \in {"done", "error"}

Data(e) == e.data

\* the data of the content events of evs, concatenated in order
ContentText(evs) == Concat(Map(Data, SelectSeq(evs, IsContent)))

\* The text an upstream carries: the text itself when it is not SSE-framed,
\* else the deltas of its frames up to the sentinel, the last line included
\* whether or not a newline ends it.
FullText(s) ==
    IF Includes(s, DATA) THEN ContentText(HandleLines(Split(s))) ELSE s

\* the events of a request whose upstream text arrives as one chunk
SingleChunk(c, s) == ChatIdEvents(c) \o HandleChunk(<<>>, s).out \o <<DoneEvent>>

IsDoneLine(line) == StartsWith(line, DATA) /\ Payload(line) = DONE

\* a complete SSE line whose payload is not empty, not the sentinel and not JSON
IsUnparsedLine(line) ==
    /\ StartsWith(line, DATA)
    /\ Payload(line) # <<>>
    /\ Payload(line) # DONE
    /\ ~ParseJSON(Payload(line)).ok

\* the lines of ls before its first sentinel line
RECURSIVE BeforeDone(_)
BeforeDone(ls) ==
    IF ls = <<>> \/ IsDoneLine(Head(ls)) THEN <<>>
    ELSE <<Head(ls)>> \o BeforeDone(Tail(ls))

\* every chunk holds the marker, and every chunk but the last is made of
\* whole lines, none of them the sentinel
Aligned(cs) ==
    \A i \in DOMAIN cs :
        /\ Includes(cs[i], DATA)
        /\ i < Len(cs) =>
              /\ cs[i][Len(cs[i])] = NL
              /\ \A j \in DOMAIN Split(cs[i]) : ~IsDoneLine(Split(cs[i])[j])

\* C1: when the normalizer has finished, after a normal close or after a
\* failure of the upstream, its events hold exactly one terminal event (done
\* or error) and that event is the last one.
C1_OneTerminalLast ==
    npc = "finished" =>
        /\ events # <<>>
        /\ IsTerminal(events[Len(events)])
        /\ \A i \in 1..(Len(events) - 1) : ~IsTerminal(events[i])

\* C2: when reading the upstream raised an exception, the last event is an
\* error event, no done event was emitted, and the response stream itself is
\* not put in the errored state.
C2_ErrorInBand ==
    error # "none" =>
        /\ controller # "errored"
        /\ events # <<>>
        /\ events[Len(events)].type = "error"
        /\ \A i \in DOMAIN events : events[i].type # "done"

\* C3: after a normal close the data of the content events, concatenated in
\* order, is the text the upstream carried, however it was cut into chunks.
C3_ContentIsUpstreamText ==
    controller = "closed" => ContentText(events) = FullText(source)

C8_ChatIdOnceAndFirst ==
    /\ npc = "start" => events = <<>>
    /\ (npc # "start" /\ Truthy(chatId)) =>
          /\ Count(events, IsChatId) = 1
          /\ events[1] = ChatIdEvent(chatId.id)
    /\ ~Truthy(chatId) => Count(events, IsChatId) = 0

C8_Witness ==
    /\ controller = "closed"
    /\ Truthy(chatId)
    /\ Count(events, IsContent) >= 1
    /\ Count(events, IsChatId) = 1

\* C9 (as claimed): for every complete SSE line of the pass whose payload is
\* not empty, not [DONE] and not JSON, the pass enqueues one content event
\* with that payload as data, and the stream stays open.
C9_UnparsedLinesForwarded ==
    \A i \in DOMAIN lines :
        IsUnparsedLine(lines[i]) =>
            /\ Count(emitted, LAMBDA e : e = ContentEvent(Payload(lines[i])))
                 = Count(lines, LAMBDA l : IsUnparsedLine(l) /\ Payload(l) = Payload(lines[i]))
            /\ controller = "open"
            /\ error = "none"

\* C9 (amended): the same for every such line that the pass reaches, that is
\* every one that no [DONE] line precedes among the lines of the same pass.
C9_ReachedUnparsedLinesForwarded ==
    LET reached == BeforeDone(lines)
    IN  \A i \in DOMAIN reached :
              IsUnparsedLine(reached[i]) =>
                  /\ Count(emitted, LAMBDA e : e = ContentEvent(Payload(reached[i])))
                       = Count(reached, LAMBDA l : IsUnparsedLine(l)
                                                   /\ Payload(l) = Payload(reached[i]))
                  /\ controller = "open"
                  /\ error = "none"

C9_Witness ==
    /\ Len(lines) >= 2
    /\ \E i \in DOMAIN lines : IsUnparsedLine(lines[i]) /\ i <= Len(BeforeDone(lines))
    /\ \E i \in DOMAIN lines : IsDoneLine(lines[i])

\* C10 (as claimed): no content event has data that is empty once its
\* whitespace is stripped.
C10_NoBlankContent ==
    \A i \in DOMAIN events : IsContent(events[i]) => Trim(events[i].data) # <<>>

\* C10 (amended): no content event has empty data; data made only of
\* whitespace is forwarded like any other text.
C10_NoEmptyContent ==
    \A i \in DOMAIN events : IsContent(events[i]) => events[i].data # <<>>

C10_Witness ==
    /\ controller = "closed"
    /\ \E i \in DOMAIN chunks : chunks[i] = <<>>
    /\ \E i \in DOMAIN events : IsContent(events[i]) /\ Trim(events[i].data) = <<>>

\* the buffer when the i-th chunk of cs arrives
RECURSIVE BufferBefore(_, _)
BufferBefore(cs, i) ==
    IF i <= 1 THEN <<>>
    ELSE HandleChunk(BufferBefore(cs, i - 1), cs[i - 1]).buffer

\* the complete lines handled when the i-th chunk of cs arrived
PassLines(cs, i) == HandleChunk(BufferBefore(cs, i), cs[i]).lines

HasDoneLine(ls) == \E j \in DOMAIN ls : IsDoneLine(ls[j])

LineOut(line) == HandleLine(line).out

IsDone(e) == e.type = "done"

\* C18: a [DONE] line emits no done event and does not end the reading: there
\* is no done event while the reader has not signalled completion and exactly
\* one, the last event, after it has; and whatever the chunks before held, a
\* [DONE] line included, the lines of a pass are converted like any other, up
\* to the first [DONE] line among them.
C18_DoneLineEndsItsPassOnly ==
    /\ Count(events, IsDone) = IF controller = "closed" THEN 1 ELSE 0
    /\ controller = "closed" => events[Len(events)] = DoneEvent
    /\ (npc = "reading" /\ lines # <<>>) =>
          /\ controller = "open"
          /\ emitted = Concat(Map(LineOut, BeforeDone(lines)))

C18_Witness ==
    /\ controller = "closed"
    /\ Len(chunks) = 2
    /\ HasDoneLine(PassLines(chunks, 1))
    /\ HandleChunk(<<>>, chunks[1]).out = <<>>
    /\ \E j \in DOMAIN PassLines(chunks, 2) : LineOut(PassLines(chunks, 2)[j]) # <<>>
    /\ Count(events, IsContent) >= 1
    /\ Count(events, IsDone) = 1

\* the buffer after each chunk of cs was added to it, when none of them
\* holds the marker 'data: '; <<>> when one of them does
RECURSIVE RawBuffers(_, _)
RawBuffers(cs, buf) ==
    IF cs = <<>> THEN <<>>
    ELSE LET b == buf \o Head(cs)
             rest == RawBuffers(Tail(cs), HandleChunk(buf, Head(cs)).buffer)
         IN  IF Includes(b, DATA) \/ (Len(cs) > 1 /\ rest = <<>>) THEN <<>>
             ELSE <<b>> \o rest

NonEmpty(c) == c # <<>>

\* C19: when no chunk so far arrived with 'data: ' in the accumulated buffer,
\* the last chunk gave one content event with the whole buffer as data when
\* the buffer was not empty and none when it was, and left the buffer empty;
\* after a close the events are then the optional chat_id, one content event
\* per non-empty chunk with the chunk as data, in order, and done.
C19_RawChunksForwarded ==
    (npc # "start" /\ chunks # <<>> /\ error = "none") =>
        LET bufs == RawBuffers(chunks, <<>>)
        IN  bufs # <<>> =>
              /\ buffer = <<>>
              /\ bufs = chunks
              /\ controller = "open" =>
                    emitted = IF bufs[Len(bufs)] # <<>>
                              THEN <<ContentEvent(bufs[Len(bufs)])>> ELSE <<>>
              /\ controller = "closed" =>
                    events = ChatIdEvents(chatId)
                             \o Map(ContentEvent, SelectSeq(chunks, NonEmpty))
                             \o <<DoneEvent>>

C19_Witness ==
    /\ controller = "closed"
    /\ RawBuffers(chunks, <<>>) # <<>>
    /\ Len(chunks) = 2
    /\ chunks[1] # <<>>
    /\ chunks[2] # <<>>
    /\ Count(events, IsContent) = 2

----------------------------------------------------------------------------
(* Properties of the tool-execution loop *)

IsToolMessage(m) == m.role = "tool"
IsAssistantMessage(m) == m.role = "assistant"
IsToolSegment(g) == g.type = "tool"
IsModelSegment(g) == g.type = "model"

\* the call is for a tool of the request, so its callback goes past the lookup
\* or fails before it
Runs(tc) == tc.name \in RequestTools

\* C5 (as claimed): the iterations value of the returned timing never exceeds
\* MAX_TOOL_ITERATIONS.
C5_IterationsWithinCap ==
    lpc = "returned" => returned.iterations <= MAX_TOOL_ITERATIONS

\* C5 (amended): the passes of the loop never exceed MAX_TOOL_ITERATIONS, and
\* the iterations value of the returned timing, which counts the model calls,
\* never exceeds MAX_TOOL_ITERATIONS + 1.
C5_IterationsWithinCapPlusOne ==
    /\ iterationCount <= MAX_TOOL_ITERATIONS
    /\ lpc = "returned" =>
          /\ returned.iterations <= MAX_TOOL_ITERATIONS + 1
          /\ returned.iterations = Count(returned.timeSegments, IsModelSegment)

C5_Witness ==
    /\ lpc = "returned"
    /\ returned.iterations = MAX_TOOL_ITERATIONS + 1

\* C6: when the results of a batch have been joined, every invocation of the
\* batch for a tool of the request has settled and has exactly one tool
\* message, whatever happened to its siblings, every invocation recorded has
\* its record and its segment, and the loop is at its next model call.
C6_SiblingsRecorded ==
    lpc = "next" =>
        /\ \A i \in DOMAIN promises :
              /\ promises[i].state = "fulfilled"
              /\ Runs(promises[i].call) =>
                    Count(currentMessages,
                          LAMBDA m : IsToolMessage(m)
                                     /\ m.tool_call_id = promises[i].call.id) = 1
        /\ Len(toolCalls) = Count(currentMessages, IsToolMessage)
        /\ Count(timeSegments, IsToolSegment) = Len(toolCalls)

C6_Witness ==
    /\ lpc = "next"
    /\ Len(promises) = 2
    /\ settled = <<2, 1>>
    /\ promises[1].value.result.success
    /\ ~promises[2].value.result.success
    /\ promises[2].value.result.error = "thrown"
    /\ Len(toolCalls) = 2

\* C7: when the loop has returned and the last response still asks for
\* tools, as every response before it did, the loop has made exactly
\* MAX_TOOL_ITERATIONS passes, each with its batch and its model call, and the
\* value returned carries the latest content and the segments.
C7_CapReturnsNormally ==
    (lpc = "returned" /\ currentResponse.tool_calls # <<>>) =>
        /\ iterationCount = MAX_TOOL_ITERATIONS
        /\ Count(currentMessages, IsAssistantMessage) = MAX_TOOL_ITERATIONS
        /\ Count(timeSegments, IsModelSegment) = MAX_TOOL_ITERATIONS + 1
        /\ returned.content = content
        /\ currentResponse.content # <<>> => returned.content = currentResponse.content
        /\ returned.timeSegments = timeSegments

C7_Witness ==
    /\ lpc = "returned"
    /\ currentResponse.tool_calls # <<>>
    /\ iterationCount = MAX_TOOL_ITERATIONS
    /\ returned.content # <<>>

\* the tool messages of a message list
ToolMessages(ms) == SelectSeq(ms, IsToolMessage)

\* the last n elements of seq
LastOf(seq, n) == SubSeq(seq, Len(seq) - n + 1, Len(seq))

\* the invocations of the batch that were not skipped, in the order the model
\* asked for them
Executed(ps) == SelectSeq(ps, LAMBDA p : ~p.value.isNull)

\* the invocations of the batch that were not skipped, in the order they settled
ExecutedAsSettled(ps, order) ==
    SelectSeq([i \in 1..Len(order) |-> ps[order[i]]], LAMBDA p : ~p.value.isNull)

CallId(p) == p.call.id

ToolCallId(m) == m.tool_call_id

\* C11: at most one model call is in flight; a model call is in flight only
\* at the first call and after a batch, and then every tool invocation of the
\* batch has settled and the message list sent with the call ends with the
\* assistant message of the batch followed by its tool-result messages; no
\* model call is in flight while a tool of the batch is still running.
C11_ModelCallsSequential ==
    /\ inFlight \in {0, 1}
    /\ inFlight = 1 <=> lpc \in {"initial", "next"}
    /\ lpc = "tools" => inFlight = 0
    /\ lpc = "next" =>
          /\ \A i \in DOMAIN promises : promises[i].state = "fulfilled"
          /\ LET n == Len(Executed(promises))
                 tail == LastOf(currentMessages, n + 1)
             IN  /\ Len(currentMessages) >= n + 1
                 /\ IsAssistantMessage(tail[1])
                 /\ tail[1].tool_calls = Map(CallId, promises)
                 /\ \A j \in 2..(n + 1) : IsToolMessage(tail[j])
                 /\ \A i \in DOMAIN promises :
                       ~promises[i].value.isNull =>
                           \E j \in 2..(n + 1) : tail[j].tool_call_id = promises[i].call.id

C11_Witness ==
    /\ lpc = "next"
    /\ iterationCount = 1
    /\ Len(promises) = 2
    /\ Len(settled) = 2
    /\ \A i \in DOMAIN promises : promises[i].value.duration > 0
    /\ Count(currentMessages, IsToolMessage) >= 3

C13_UnknownToolSkipped ==
    lpc = "next" =>
        /\ \A i \in DOMAIN promises :
              promises[i].call.name \notin RequestTools =>
                  /\ \A j \in DOMAIN currentMessages :
                        IsToolMessage(currentMessages[j]) =>
                            currentMessages[j].tool_call_id # promises[i].call.id
                  /\ \A j \in DOMAIN toolCalls :
                        toolCalls[j].name # promises[i].call.name
                  /\ \A j \in DOMAIN timeSegments :
                        timeSegments[j].name # promises[i].call.name
        /\ Count(currentMessages,
                 LAMBDA m : IsToolMessage(m)
                            /\ \E i \in DOMAIN promises :
                                  promises[i].call.id = m.tool_call_id)
             = Count(promises, LAMBDA p : Runs(p.call))

\* the structured payload of a failed invocation
ErrorPayload(p) ==
    [error |-> TRUE, message |-> p.value.result.error, tool |-> p.call.name,
     output |-> "undefined"]

\* C15: every invocation of a batch that was executed, whether it succeeded or
\* failed, has exactly one record, one tool segment and one tool message; the
\* record of a failed one has success false, and its result and the content of
\* its message are the payload {error: true, message, tool}.
C15_OneRecordSegmentMessage ==
    lpc = "next" =>
        LET done == Executed(promises)
            n == Len(done)
            recs == LastOf(toolCalls, n)
            segs == LastOf(timeSegments, n)
            msgs == LastOf(currentMessages, n)
        IN  /\ Len(toolCalls) = Count(currentMessages, IsToolMessage)
            /\ Len(toolCalls) = Count(timeSegments, IsToolSegment)
            /\ \A j \in 1..n :
                  /\ Count(currentMessages,
                           LAMBDA m : IsToolMessage(m)
                                      /\ m.tool_call_id = done[j].call.id) = 1
                  /\ msgs[j].tool_call_id = done[j].call.id
                  /\ recs[j].name = done[j].call.name
                  /\ recs[j].success = done[j].value.result.success
                  /\ IsToolSegment(segs[j])
                  /\ segs[j].name = done[j].call.name
                  /\ ~done[j].value.result.success =>
                        /\ recs[j].success = FALSE
                        /\ recs[j].result = ErrorPayload(done[j])
                        /\ msgs[j].content = ErrorPayload(done[j])

C15_Witness ==
    /\ lpc = "next"
    /\ Len(promises) = 2
    /\ promises[1].value.result.error = "failed"
    /\ promises[2].value.result.success
    /\ LastOf(toolCalls, 2)[1].result.error
    /\ ~LastOf(toolCalls, 2)[2].result.error

\* the figures of a usage field, zero when the response has none
UsageFigures(u) ==
    IF u.present
    THEN [input |-> u.prompt_tokens, output |-> u.completion_tokens,
          total |-> u.total_tokens]
    ELSE [input |-> 0, output |-> 0, total |-> 0]

\* C16: the token counters never decrease; they start at zero, each response
\* of the model adds the figures of its usage to them (nothing when it has no
\* usage), and nothing else changes them: so after each iteration they are
\* the sum of the usage of all the model calls so far.
C16_TokensAreSumOfUsage ==
    [][/\ tokens'.input >= tokens.input
       /\ tokens'.output >= tokens.output
       /\ tokens'.total >= tokens.total
       /\ IF lpc \in {"initial", "next"} /\ lpc' = "inspect"
          THEN LET u == UsageFigures(currentResponse'.usage)
               IN  tokens' = [input |-> tokens.input + u.input,
                              output |-> tokens.output + u.output,
                              total |-> tokens.total + u.total]
          ELSE tokens' = tokens]_vars

C16_Witness ==
    /\ lpc = "returned"
    /\ iterationCount = 2
    /\ ~currentResponse.usage.present
    /\ returned.tokens.total = 2 * SomeUsage.total_tokens
    /\ returned.tokens.input = 2 * SomeUsage.prompt_tokens

\* the time between each segment of gs and the next one
RECURSIVE SumOfGaps(_)
SumOfGaps(gs) ==
    IF Len(gs) < 2 THEN 0
    ELSE (gs[2].startTime - gs[1].endTime) + SumOfGaps(Tail(gs))

\* C17 (as claimed): on return modelTime is the sum of the durations of the
\* model segments and toolsTime is the sum of the durations of the tool
\* segments.
C17_TimesAreSegmentSums ==
    lpc = "returned" =>
        /\ returned.modelTime
             = SumOfDurations(SelectSeq(returned.timeSegments, IsModelSegment))
        /\ returned.toolsTime
             = SumOfDurations(SelectSeq(returned.timeSegments, IsToolSegment))

\* C17 (amended): on return modelTime is the sum of the durations of the
\* model segments, and toolsTime is the sum over the batches of the time each
\* batch took as a whole, from the response that asked for it to the next
\* model call, so that tools that ran at the same time are counted once.
C17_ToolsTimeIsBatchTime ==
    lpc = "returned" =>
        /\ returned.modelTime
             = SumOfDurations(SelectSeq(returned.timeSegments, IsModelSegment))
        /\ returned.toolsTime
             = SumOfGaps(SelectSeq(returned.timeSegments, IsModelSegment))

C17_Witness ==
    /\ lpc = "returned"
    /\ returned.toolsTime > 0
    /\ returned.toolsTime
         < SumOfDurations(SelectSeq(returned.timeSegments, IsToolSegment))
    /\ \E i, j \in DOMAIN returned.timeSegments :
          /\ i < j
          /\ IsToolSegment(returned.timeSegments[i])
          /\ IsToolSegment(returned.timeSegments[j])
          /\ returned.timeSegments[i].startTime = returned.timeSegments[j].startTime

\* C20: when a model call has failed, the first or a later one, executeRequest
\* has thrown an error whose timing holds startTime, endTime and their
\* difference as duration, it has returned nothing, no model call is in
\* flight and no step of the loop follows; nothing is thrown otherwise.
C20_FailureRejectsWithTiming ==
    /\ lpc = "rejected" =>
          /\ thrown.thrown
          /\ thrown.timing.startTime = providerStartTime
          /\ thrown.timing.endTime = now
          /\ thrown.timing.duration = now - providerStartTime
          /\ thrown.timing.duration > 0
          /\ returned = NoReturn
          /\ inFlight = 0
          /\ ~ENABLED LoopNext
    /\ thrown.thrown => lpc = "rejected"

C20_Witness ==
    /\ lpc = "rejected"
    /\ iterationCount = 1
    /\ toolCalls # <<>>
    /\ thrown.timing.duration > Tick

\* two tool segments of the same batch: the invocations of a batch start
\* together, and a model call lies between two batches
SameBatch(g, h) == g.startTime = h.startTime

\* C21: the list of segments starts with a model segment; the tool segments
\* of a batch are next to each other; what follows a tool segment is a tool
\* segment of the same batch or a model segment; once the model has answered,
\* there is one model segment for the first call and one for each batch; and
\* the list returned ends with a model segment.
C21_SegmentsWellFormed ==
    /\ timeSegments # <<>> => IsModelSegment(timeSegments[1])
    /\ \A i, j \in DOMAIN timeSegments :
          (i < j /\ IsToolSegment(timeSegments[i]) /\ IsToolSegment(timeSegments[j])
             /\ SameBatch(timeSegments[i], timeSegments[j])) =>
              \A k \in i..j : IsToolSegment(timeSegments[k])
    /\ \A i \in 1..(Len(timeSegments) - 1) :
          IsToolSegment(timeSegments[i]) =>
              \/ IsModelSegment(timeSegments[i + 1])
              \/ /\ IsToolSegment(timeSegments[i + 1])
                 /\ SameBatch(timeSegments[i], timeSegments[i + 1])
    /\ lpc \in {"inspect", "returned"} =>
          /\ Count(timeSegments, IsModelSegment) = iterationCount + 1
          /\ IsModelSegment(timeSegments[Len(timeSegments)])
    /\ lpc = "returned" =>
          /\ returned.timeSegments = timeSegments
          /\ IsModelSegment(returned.timeSegments[Len(returned.timeSegments)])

C21_Witness ==
    /\ lpc = "returned"
    /\ Len(returned.timeSegments) = 6
    /\ IsToolSegment(returned.timeSegments[2])
    /\ IsToolSegment(returned.timeSegments[3])
    /\ IsModelSegment(returned.timeSegments[4])
    /\ IsToolSegment(returned.timeSegments[5])
    /\ ~SameBatch(returned.timeSegments[3], returned.timeSegments[5])

\* the index of the first assistant message of ms after index a, or past
\* the end of ms when there is none
NextAssistant(ms, a) ==
    IF \E k \in (a + 1)..Len(ms) : IsAssistantMessage(ms[k])
    THEN CHOOSE k \in (a + 1)..Len(ms) :
             /\ IsAssistantMessage(ms[k])
             /\ \A h \in (a + 1)..(k - 1) : ~IsAssistantMessage(ms[h])
    ELSE Len(ms) + 1

\* C22: when a model call after the first is in flight, every tool-call id
\* listed in an assistant message of the message list has exactly one tool
\* message with that id, and that message lies after the assistant message
\* and before the next assistant message.
C22_MessagesWellFormed ==
    lpc = "next" =>
        \A a \in DOMAIN currentMessages :
            IsAssistantMessage(currentMessages[a]) =>
                \A c \in DOMAIN currentMessages[a].tool_calls :
                    LET id == currentMessages[a].tool_calls[c]
                    IN  /\ Count(currentMessages,
                                 LAMBDA m : IsToolMessage(m) /\ m.tool_call_id = id) = 1
                        /\ \E k \in (a + 1)..(NextAssistant(currentMessages, a) - 1) :
                              /\ IsToolMessage(currentMessages[k])
                              /\ currentMessages[k].tool_call_id = id

\* C24: the content starts empty; a response with content replaces it and
\* a response without content leaves it as it was; no other step changes it;
\* and the value returned, at the cap or because the last response asks for
\* no tool, carries it. So the content returned is that of the most recent
\* response with content, or empty when none had any.
C24_LatestContentReturned ==
    [][/\ IF lpc \in {"initial", "next"} /\ lpc' = "inspect"
          THEN content' = IF currentResponse'.content # <<>>
                          THEN currentResponse'.content ELSE content
          ELSE content' = content
       /\ lpc' = "returned" => returned'.content = content']_vars

C24_Witness ==
    /\ lpc = "returned"
    /\ iterationCount = MAX_TOOL_ITERATIONS
    /\ currentResponse.tool_calls # <<>>
    /\ currentResponse.content = <<>>
    /\ returned.content = <<2>>

----------------------------------------------------------------------------
(* Properties of the path selection *)

\* the request carries at least one tool
CarriesTools(req) == req.tools.defined /\ req.tools.list # <<>>

OnStreamingPath == apc \in {"creating", "streaming", "closed", "errored", "rejected"}

\* C14: executeRequest is on the streaming path only when stream is requested
\* and the request carries no tools; a request with a non-empty tool list is
\* on the non-streaming path whether or not stream is requested, also when
\* usageControl 'none' leaves none of its tools to send; no tool is sent on
\* the streaming path.
C14_StreamingOnlyWithoutTools ==
    /\ OnStreamingPath => (request.stream /\ ~CarriesTools(request))
    /\ OnStreamingPath => payloadTools = <<>>
    /\ (apc # "begin" /\ CarriesTools(request)) => apc = "batch"
    /\ apc = "batch" => (~request.stream \/ CarriesTools(request))

C14_Witness ==
    /\ apc = "batch"
    /\ request.stream
    /\ Len(request.tools.list) = 2
    /\ \A i \in DOMAIN request.tools.list : request.tools.list[i] = "none"
    /\ payloadTools = <<>>

\* the streaming result exists and its stream has been started
StreamStarted == apc \in {"streaming", "closed", "errored"}

Reported(rs) == {i \in DOMAIN rs : rs[i].usage.present}

\* the chunk that reported usage last
LastReport(rs) == CHOOSE i \in Reported(rs) : \A j \in Reported(rs) : j <= i

\* C23: on the streaming path, once a chunk has reported usage, the tokens
\* of the result after every chunk are the figures of the usage reported
\* last, not a sum over the chunks; a chunk without usage leaves the figures
\* reported before it in effect.
C23_TokensAreLatestUsage ==
    (StreamStarted /\ Reported(received) # {}) =>
        LET u == received[LastReport(received)].usage
        IN  /\ output.tokens.defined
            /\ output.tokens.input = u.prompt_tokens
            /\ output.tokens.output = u.completion_tokens
            /\ output.tokens.total = u.total_tokens

C23_Witness ==
    /\ apc = "streaming"
    /\ Len(received) = 3
    /\ received[1].usage = SomeUsage
    /\ received[2].usage = MoreUsage
    /\ ~received[3].usage.present
    /\ output.tokens.total = MoreUsage.total_tokens

RECURSIVE ConcatDeltas(_)
ConcatDeltas(rs) ==
    IF rs = <<>> THEN <<>>
    ELSE ConcatDeltas(SubSeq(rs, 1, Len(rs) - 1)) \o rs[Len(rs)].delta

\* C25: on the streaming path the update callback has run once for each
\* chunk taken, each chunk's delta is enqueued in order, and whenever deltas
\* are in the stream the content of the result is the concatenation, in
\* order, of every delta enqueued so far, the last one included.
C25_ResultNeverBehindStream ==
    StreamStarted =>
        /\ updates = Len(received)
        /\ Len(queue) = Len(received)
        /\ \A i \in DOMAIN queue : queue[i] = Encode(received[i].delta)
        /\ queue # <<>> => output.content = ConcatDeltas(received)

C25_Witness ==
    /\ apc = "streaming"
    /\ Len(queue) = 3
    /\ queue[1] = <<97>>
    /\ queue[2] = <<>>
    /\ queue[3] = <<97>>
    /\ output.content = <<"a", "a">>

====
